---- MODULE Spec2Model ----
(***************************************************************************)
(* A model of the tumblr client library: the variant-shaped NPF media      *)
(* decoder (post.go), the blog path builder and the query helpers          *)
(* (tumblelog.go, post.go).                                                *)
(*                                                                         *)
(* Go strings and byte slices are sequences of one-character strings.      *)
(* JSON input is a sequence of bytes over a small alphabet in which the    *)
(* byte "u" abbreviates the object member "url":"u" and the byte "n" the   *)
(* literal null; every other byte is itself.                               *)
(***************************************************************************)
EXTENDS Integers, Sequences, FiniteSets, TLC

VARIABLES
    n,          \* the NpfMediaContainer the decoder is called on
    data,       \* the argument of the last UnmarshalJSON call
    err,        \* what that call returned ("none" before the first call)
    panicked,   \* TRUE once a call has ended in a runtime panic
    pathTemplate,   \* the template of the last blogPath call
    blogName,       \* the blog identifier of the last blogPath call
    pathResult,     \* what that call returned
    pathCalled,     \* TRUE once blogPath has been called
    requests,   \* per client capability, the requests issued on it so far
    calls,      \* the query helper calls made so far
    lastCall,   \* the last helper call: its name and arguments
    lastReply,  \* what the client capability answered in that call
    lastSent,   \* the requests that call issued, in order
    result,     \* the entity that call returned
    qerr,       \* the error that call returned
    bodyParsed, \* whether that call parsed the response body into a map
    ref         \* the BlogRef the BlogRef methods are called on

mediaVars == <<n, data, err, panicked>>

pathVars == <<pathTemplate, blogName, pathResult, pathCalled>>

queryVars == <<requests, calls, lastCall, lastReply, lastSent, result, qerr,
               bodyParsed, ref>>

vars == <<n, data, err, panicked, pathTemplate, blogName, pathResult, pathCalled,
          requests, calls, lastCall, lastReply, lastSent, result, qerr,
          bodyParsed, ref>>

----------------------------------------------------------------------------
(* Bounds *)

\* Every string of brackets, whitespace and null up to this length is an
\* input of the decoder.
MaxLen == 2

\* Arrays of up to this many media descriptors are inputs of the decoder.
MaxColl == 2

\* Every blog identifier of up to this many characters is an input of blogPath.
MaxName == 3

\* The query helpers are called at most this many times in a run.
MaxCalls == 2

----------------------------------------------------------------------------
(* Go values *)

\* NpfMedia{}: the zero descriptor.  Only Url is modelled; Type, Width and
\* Height are decoded by the same field-by-field rule.
ZeroMedia == [Url |-> ""]

\* A []NpfMedia: nil, or a (possibly empty) backing sequence.
NilSlice == [nil |-> TRUE, elems |-> <<>>]

MakeSlice(s) == [nil |-> FALSE, elems |-> s]

\* NpfMediaContainer{}: the zero container.
ZeroContainer == [Media |-> ZeroMedia, MediaCollection |-> NilSlice, IsArray |-> FALSE]

ErrNil == "nil"

ErrShape == "unexpected char or whatever"

ErrJson == "json"

----------------------------------------------------------------------------
(* encoding/json, as far as the decoder uses it *)

Bytes == {"[", "]", "{", "}", ",", " ", "u", "n"}

IsSpace(b) == b = " "

JNull == [kind |-> "null", members |-> <<>>, elems |-> <<>>]

JObject(ms) == [kind |-> "object", members |-> ms, elems |-> <<>>]

JArray(es) == [kind |-> "array", members |-> <<>>, elems |-> es]

ParseFail == [ok |-> FALSE, pos |-> 0, tree |-> JNull]

ParseOk(p, t) == [ok |-> TRUE, pos |-> p, tree |-> t]

RECURSIVE SkipSpace(_, _)
SkipSpace(d, i) ==
    IF i <= Len(d) /\ IsSpace(d[i]) THEN SkipSpace(d, i + 1) ELSE i

RECURSIVE ParseValue(_, _)
RECURSIVE ParseMembers(_, _, _)
RECURSIVE ParseElems(_, _, _)

\* One JSON value starting at byte i (no leading whitespace).
ParseValue(d, i) ==
    IF i > Len(d) THEN ParseFail
    ELSE IF d[i] = "n" THEN ParseOk(i + 1, JNull)
    ELSE IF d[i] = "{" THEN
        LET j == SkipSpace(d, i + 1)
        IN  IF j <= Len(d) /\ d[j] = "}" THEN ParseOk(j + 1, JObject(<<>>))
            ELSE ParseMembers(d, j, <<>>)
    ELSE IF d[i] = "[" THEN
        LET j == SkipSpace(d, i + 1)
        IN  IF j <= Len(d) /\ d[j] = "]" THEN ParseOk(j + 1, JArray(<<>>))
            ELSE ParseElems(d, j, <<>>)
    ELSE ParseFail

\* The members of an object from byte j on, up to its closing brace.
ParseMembers(d, j, acc) ==
    IF j > Len(d) \/ d[j] # "u" THEN ParseFail
    ELSE LET k == SkipSpace(d, j + 1)
         IN  IF k > Len(d) THEN ParseFail
             ELSE IF d[k] = "}" THEN ParseOk(k + 1, JObject(Append(acc, d[j])))
             ELSE IF d[k] = "," THEN
                 ParseMembers(d, SkipSpace(d, k + 1), Append(acc, d[j]))
             ELSE ParseFail

\* The elements of an array from byte j on, up to its closing bracket.
ParseElems(d, j, acc) ==
    LET e == ParseValue(d, j)
    IN  IF ~e.ok THEN ParseFail
        ELSE LET k == SkipSpace(d, e.pos)
             IN  IF k > Len(d) THEN ParseFail
                 ELSE IF d[k] = "]" THEN ParseOk(k + 1, JArray(Append(acc, e.tree)))
                 ELSE IF d[k] = "," THEN
                     ParseElems(d, SkipSpace(d, k + 1), Append(acc, e.tree))
                 ELSE ParseFail

\* json.Unmarshal's first pass: the whole input is one JSON value between
\* optional whitespace.
checkValid(d) ==
    LET r == ParseValue(d, SkipSpace(d, 1))
    IN  IF r.ok /\ SkipSpace(d, r.pos) = Len(d) + 1 THEN r ELSE ParseFail

\* A JSON value stored into an NpfMedia that holds `into`: an object sets
\* the fields its members name, null stores nothing, an array is a type
\* error and stores nothing.
StoreMedia(t, into) ==
    IF t.kind = "object" THEN
        [err |-> ErrNil,
         val |-> IF \E i \in 1..Len(t.members) : t.members[i] = "u"
                 THEN [into EXCEPT !.Url = "u"] ELSE into]
    ELSE IF t.kind = "null" THEN [err |-> ErrNil, val |-> into]
    ELSE [err |-> ErrJson, val |-> into]

\* json.Unmarshal(data, &media) for media of type NpfMedia.
UnmarshalMedia(d, into) ==
    LET r == checkValid(d)
    IN  IF ~r.ok THEN [err |-> ErrJson, val |-> into]
        ELSE StoreMedia(r.tree, into)

\* json.Unmarshal(data, &mediaCollection) for a []NpfMedia: an array resets
\* the slice and decodes each element into a zero descriptor; the first type
\* error among the elements is returned after the others were decoded.
UnmarshalCollection(d, into) ==
    LET r == checkValid(d)
    IN  IF ~r.ok THEN [err |-> ErrJson, val |-> into]
        ELSE IF r.tree.kind = "null" THEN [err |-> ErrNil, val |-> NilSlice]
        ELSE IF r.tree.kind # "array" THEN [err |-> ErrJson, val |-> into]
        ELSE LET es == r.tree.elems
                 st == [i \in 1..Len(es) |-> StoreMedia(es[i], ZeroMedia)]
             IN  [err |-> IF \E i \in 1..Len(es) : st[i].err # ErrNil
                          THEN ErrJson ELSE ErrNil,
                  val |-> MakeSlice([i \in 1..Len(es) |-> st[i].val])]

----------------------------------------------------------------------------
(* NpfMediaContainer.UnmarshalJSON *)

\* UnmarshalJSON, had its default branch reset the container.
UnmarshalJSONResetOnShapeError(c, d) ==
    IF Len(d) = 0 THEN [n |-> c, err |-> "none", panic |-> TRUE]
    ELSE IF d[1] = "[" THEN
        LET r == UnmarshalCollection(d, MakeSlice(<<>>))
        IN  IF r.err # ErrNil THEN [n |-> c, err |-> r.err, panic |-> FALSE]
            ELSE [n |-> [c EXCEPT !.MediaCollection = r.val, !.IsArray = TRUE],
                  err |-> ErrNil, panic |-> FALSE]
    ELSE IF d[1] = "{" THEN
        LET r == UnmarshalMedia(d, ZeroMedia)
        IN  IF r.err # ErrNil THEN [n |-> c, err |-> r.err, panic |-> FALSE]
            ELSE [n |-> [c EXCEPT !.Media = r.val, !.IsArray = FALSE],
                  err |-> ErrNil, panic |-> FALSE]
    ELSE [n |-> ZeroContainer, err |-> ErrShape, panic |-> FALSE]

\* UnmarshalJSON, had it switched on the first byte that is no whitespace.
UnmarshalJSONSkippingSpace(c, d) ==
    LET i == SkipSpace(d, 1)
    IN  IF Len(d) = 0 THEN [n |-> c, err |-> "none", panic |-> TRUE]
        ELSE IF i <= Len(d) /\ d[i] = "[" THEN
            LET r == UnmarshalCollection(d, MakeSlice(<<>>))
            IN  IF r.err # ErrNil THEN [n |-> c, err |-> r.err, panic |-> FALSE]
                ELSE [n |-> [c EXCEPT !.MediaCollection = r.val, !.IsArray = TRUE],
                      err |-> ErrNil, panic |-> FALSE]
        ELSE IF i <= Len(d) /\ d[i] = "{" THEN
            LET r == UnmarshalMedia(d, ZeroMedia)
            IN  IF r.err # ErrNil THEN [n |-> c, err |-> r.err, panic |-> FALSE]
                ELSE [n |-> [c EXCEPT !.Media = r.val, !.IsArray = FALSE],
                      err |-> ErrNil, panic |-> FALSE]
        ELSE [n |-> c, err |-> ErrShape, panic |-> FALSE]

\* What one call on container c with input d leaves behind: the container,
\* the returned error, and whether the call panicked (data[0] of an empty
\* slice is an index out of range).
UnmarshalJSONResult(c, d) ==
    IF Len(d) = 0 THEN [n |-> c, err |-> "none", panic |-> TRUE]
    ELSE IF d[1] = "[" THEN
        LET r == UnmarshalCollection(d, MakeSlice(<<>>))
        IN  IF r.err # ErrNil THEN [n |-> c, err |-> r.err, panic |-> FALSE]
            ELSE [n |-> [c EXCEPT !.MediaCollection = r.val, !.IsArray = TRUE],
                  err |-> ErrNil, panic |-> FALSE]
    ELSE IF d[1] = "{" THEN
        LET r == UnmarshalMedia(d, ZeroMedia)
        IN  IF r.err # ErrNil THEN [n |-> c, err |-> r.err, panic |-> FALSE]
            ELSE [n |-> [c EXCEPT !.Media = r.val, !.IsArray = FALSE],
                  err |-> ErrNil, panic |-> FALSE]
    ELSE [n |-> c, err |-> ErrShape, panic |-> FALSE]

----------------------------------------------------------------------------
(* The inputs of the decoder *)

MediaValues == {ZeroMedia, [Url |-> "u"]}

\* The JSON text of one media descriptor.
EncodeMedia(m) == IF m.Url = "u" THEN <<"{", "u", "}">> ELSE <<"{", "}">>

RECURSIVE EncodeElems(_)
EncodeElems(s) ==
    IF Len(s) = 0 THEN <<>>
    ELSE IF Len(s) = 1 THEN EncodeMedia(s[1])
    ELSE EncodeMedia(s[1]) \o <<",">> \o EncodeElems(Tail(s))

\* The JSON text of a sequence of media descriptors.
EncodeCollection(s) == <<"[">> \o EncodeElems(s) \o <<"]">>

Collections == UNION {[1..m -> MediaValues] : m \in 0..MaxColl}

\* The valid single-object texts of descriptor m: compact, with whitespace
\* inside or after the braces, and with a repeated member.
ObjectTexts(m) ==
    {EncodeMedia(m), EncodeMedia(m) \o <<" ">>,
     <<"{", " ">> \o Tail(EncodeMedia(m))}
    \cup (IF m.Url = "u" THEN {<<"{", "u", ",", "u", "}">>} ELSE {})

\* The valid array texts of the sequence s.
ArrayTexts(s) ==
    {EncodeCollection(s), EncodeCollection(s) \o <<" ">>,
     <<"[", " ">> \o Tail(EncodeCollection(s))}

ValidObjects == UNION {ObjectTexts(m) : m \in MediaValues}

ValidArrays == UNION {ArrayTexts(s) : s \in Collections}

\* A valid text, in its compact form, behind leading whitespace.
LeadingSpace ==
    {<<" ">> \o EncodeMedia(m) : m \in MediaValues}
    \cup {<<" ">> \o EncodeCollection(s) : s \in Collections}

\* Texts that start like a media value and are not one: cut short, followed
\* by more, or holding an element that is no object.
Malformed ==
    {SubSeq(t, 1, Len(t) - 1) : t \in {EncodeMedia(m) : m \in MediaValues}
                                      \cup {EncodeCollection(s) : s \in Collections}}
    \cup {EncodeMedia(m) \o <<"{", "}">> : m \in MediaValues}
    \cup {<<"[", "[", "]", "]">>, <<"[", "{", "}", ",", "[", "]", "]">>,
          <<"{", "n", "}">>}

\* The bytes of the exhaustive inputs: the brackets, whitespace and null.
\* Members and commas come in through the texts above.
RawBytes == {"[", "]", "{", "}", " ", "n"}

\* Every string of at most MaxLen of these bytes.
ByteStrings == UNION {[1..m -> RawBytes] : m \in 0..MaxLen}

Inputs == ByteStrings \cup ValidObjects \cup ValidArrays \cup LeadingSpace \cup Malformed

----------------------------------------------------------------------------
(* The decoder as a state machine *)

\* One call n.UnmarshalJSON(d).  A panic unwinds the caller: nothing runs
\* after it.
UnmarshalJSON(d) ==
    /\ ~panicked
    /\ LET r == UnmarshalJSONResult(n, d)
       IN  /\ n' = r.n
           /\ err' = r.err
           /\ panicked' = r.panic
    /\ data' = d
    /\ UNCHANGED <<pathVars, queryVars>>

MediaIdle ==
    /\ n = ZeroContainer
    /\ data = <<>>
    /\ err = "none"
    /\ panicked = FALSE

PathIdle ==
    /\ pathTemplate = <<>>
    /\ blogName = <<>>
    /\ pathResult = <<>>
    /\ pathCalled = FALSE

Clients == {"c1", "c2"}

NoClient == "nil"

NoCall == [op |-> "none", client |-> NoClient, name |-> <<>>, params |-> ""]

NoReply == [err |-> "none", body |-> "", Location |-> ""]

NilResult == [kind |-> "nil"]

QueryIdle ==
    /\ requests = [c \in Clients |-> 0]
    /\ calls = 0
    /\ lastCall = NoCall
    /\ lastReply = NoReply
    /\ lastSent = <<>>
    /\ result = NilResult
    /\ qerr = "none"
    /\ bodyParsed = FALSE
    /\ ref = [client |-> NoClient, Name |-> <<>>]

InitMedia == MediaIdle /\ PathIdle /\ QueryIdle

NextMedia == \E d \in Inputs : UnmarshalJSON(d)

SpecMedia == InitMedia /\ [][NextMedia]_vars

Called == err # "none" \/ panicked

----------------------------------------------------------------------------
(* The path builder *)

\* strings.Contains(s, substr)
Contains(s, substr) ==
    \E i \in 0..(Len(s) - Len(substr)) : SubSeq(s, i + 1, i + Len(substr)) = substr

RECURSIVE SprintfFrom(_, _, _, _)
\* fmt.Sprintf(format, arg) from byte i of the format on, for one string
\* operand: each %s verb prints the operand, or %!s(MISSING) once it is
\* used up; every other byte prints as itself.
SprintfFrom(format, i, arg, used) ==
    IF i > Len(format) THEN
        IF used THEN <<>>
        ELSE <<"%", "!", "(", "E", "X", "T", "R", "A", " ",
               "s", "t", "r", "i", "n", "g", "=">> \o arg \o <<")">>
    ELSE IF format[i] = "%" /\ i < Len(format) /\ format[i + 1] = "s" THEN
        (IF used THEN <<"%", "!", "s", "(", "M", "I", "S", "S", "I", "N", "G", ")">>
         ELSE arg) \o SprintfFrom(format, i + 2, arg, TRUE)
    ELSE <<format[i]>> \o SprintfFrom(format, i + 1, arg, used)

Sprintf(format, arg) == SprintfFrom(format, 1, arg, FALSE)

TumblrSuffixFormat == <<"%", "s", ".", "t", "u", "m", "b", "l", "r", ".", "c", "o", "m">>

normalizeBlogNameAlways(name) == Sprintf(TumblrSuffixFormat, name)

normalizeBlogName(name) ==
    IF ~Contains(name, <<".">>) THEN Sprintf(TumblrSuffixFormat, name) ELSE name

blogPath(path, name) == Sprintf(path, normalizeBlogName(name))

PostsPath == <<"/", "b", "l", "o", "g", "/", "%", "s", "/", "p", "o", "s", "t", "s">>

InfoPath == <<"/", "b", "l", "o", "g", "/", "%", "s", "/", "i", "n", "f", "o">>

AvatarPath == <<"/", "b", "l", "o", "g", "/", "%", "s", "/", "a", "v", "a", "t", "a", "r">>

\* The templates the package passes to blogPath.
Templates == {PostsPath, InfoPath, AvatarPath}

NameChars == {"f", "o", "."}

Foo == <<"f", "o", "o">>

FooExampleCom == <<"f", "o", "o", ".", "e", "x", "a", "m", "p", "l", "e", ".", "c", "o", "m">>

Names == UNION {[1..m -> NameChars] : m \in 0..MaxName} \cup {Foo, FooExampleCom}

\* One call blogPath(t, name).
CallBlogPath(t, name) ==
    /\ pathTemplate' = t
    /\ blogName' = name
    /\ pathResult' = blogPath(t, name)
    /\ pathCalled' = TRUE
    /\ UNCHANGED <<mediaVars, queryVars>>

InitPath == MediaIdle /\ PathIdle /\ QueryIdle

NextPath == \E t \in Templates, name \in Names : CallBlogPath(t, name)

SpecPath == InitPath /\ [][NextPath]_vars

\* C6: blogPath puts into the template's placeholder the identifier followed
\* by ".tumblr.com" when the identifier has no "." and the identifier itself
\* when it has one; blogPath("/blog/%s/info", "foo") is
\* "/blog/foo.tumblr.com/info" and blogPath("/blog/%s/info",
\* "foo.example.com") is "/blog/foo.example.com/info".  It returns a string
\* and no error, and leaves the rest of the state as it was.
C6_BlogPath ==
    pathCalled =>
        LET hasDot == \E i \in 1..Len(blogName) : blogName[i] = "."
            host == IF hasDot THEN blogName
                    ELSE blogName \o <<".", "t", "u", "m", "b", "l", "r", ".", "c", "o", "m">>
        IN  /\ \E i \in 1..(Len(pathTemplate) - 1) :
                  /\ pathTemplate[i] = "%"
                  /\ pathTemplate[i + 1] = "s"
                  /\ pathResult = SubSeq(pathTemplate, 1, i - 1) \o host
                                    \o SubSeq(pathTemplate, i + 2, Len(pathTemplate))
            /\ (pathTemplate = InfoPath /\ blogName = Foo) =>
                  pathResult = <<"/", "b", "l", "o", "g", "/", "f", "o", "o", ".",
                                 "t", "u", "m", "b", "l", "r", ".", "c", "o", "m",
                                 "/", "i", "n", "f", "o">>
            /\ (pathTemplate = InfoPath /\ blogName = FooExampleCom) =>
                  pathResult = <<"/", "b", "l", "o", "g", "/">> \o FooExampleCom
                                    \o <<"/", "i", "n", "f", "o">>
            /\ MediaIdle /\ QueryIdle

\* A dotted identifier went through blogPath verbatim.
C6_Witness ==
    /\ pathCalled
    /\ pathTemplate = InfoPath
    /\ blogName = FooExampleCom
    /\ pathResult = <<"/", "b", "l", "o", "g", "/">> \o FooExampleCom
                        \o <<"/", "i", "n", "f", "o">>

----------------------------------------------------------------------------
(* The claims about NpfMediaContainer.UnmarshalJSON *)

\* The first byte of d that is no whitespace is neither "[" nor "{" (d may
\* be all whitespace); d is not empty.
NoBracketFirst(d) ==
    /\ Len(d) > 0
    /\ \A i \in 1..Len(d) :
          (\A j \in 1..(i - 1) : d[j] = " ") => d[i] \notin {"[", "{"}

\* C1: after one or more UnmarshalJSON calls on a container, exactly one of
\* Media and MediaCollection is populated and IsArray is true exactly when
\* it is MediaCollection.  Read in the claim's favour: a container flagged
\* as an array holds a non-nil collection and a zero Media, and one flagged
\* as a single descriptor holds a collection of no elements.
C1_ExactlyOnePopulated ==
    Called =>
        /\ n.IsArray => (~n.MediaCollection.nil /\ n.Media = ZeroMedia)
        /\ ~n.IsArray => Len(n.MediaCollection.elems) = 0

\* C2: for every valid single-object text, UnmarshalJSON succeeds and leaves
\* Media holding the decoded descriptor, MediaCollection empty and IsArray
\* false.
C2_ObjectDecode ==
    \A m \in MediaValues :
        data \in ObjectTexts(m) =>
            /\ err = ErrNil
            /\ n.Media = m
            /\ Len(n.MediaCollection.elems) = 0
            /\ n.IsArray = FALSE

\* What of C2 the code does keep: the call succeeds, Media is the decoded
\* descriptor and IsArray is false.
ObjectDecodeSetsMedia ==
    \A m \in MediaValues :
        data \in ObjectTexts(m) => (err = ErrNil /\ n.Media = m /\ ~n.IsArray)

\* C3: for every valid array text, the empty array included, UnmarshalJSON
\* succeeds and leaves MediaCollection holding the decoded descriptors in
\* input order, Media at its zero value and IsArray true.
C3_ArrayDecode ==
    \A s \in Collections :
        data \in ArrayTexts(s) =>
            /\ err = ErrNil
            /\ n.MediaCollection = MakeSlice(s)
            /\ n.Media = ZeroMedia
            /\ n.IsArray = TRUE

\* What of C3 the code does keep: the call succeeds, MediaCollection is the
\* decoded sequence and IsArray is true.
ArrayDecodeSetsCollection ==
    \A s \in Collections :
        data \in ArrayTexts(s) =>
            (err = ErrNil /\ n.MediaCollection = MakeSlice(s) /\ n.IsArray)

\* C4: a call whose non-empty input has a first token that is neither "{"
\* nor "[" returns an error and leaves Media, MediaCollection and IsArray as
\* they were before the call.
C4_ShapeErrorKeepsContainer ==
    [][NoBracketFirst(data') => (err' = ErrShape /\ ~panicked' /\ n' = n)]_vars

\* A container that held a collection was handed a bare null, refused it and
\* still holds the collection.
C4_Witness ==
    /\ data = <<"n">>
    /\ err = ErrShape
    /\ n.IsArray
    /\ Len(n.MediaCollection.elems) = 2

\* C5: a call with empty input returns the shape error to its caller; it
\* does not crash.
C5_EmptyInputIsAnError ==
    (Called /\ data = <<>>) => (err = ErrShape /\ ~panicked)

----------------------------------------------------------------------------
(* The client capability and its responses *)

ErrTransport == "transport"

ErrAvatar == "Unable to detect avatar location"

\* Response bodies, by what they hold:
\*   ""        no bytes
\*   "bad"     bytes that are no JSON
\*   "{}"      {}
\*   "posts"   {"response":{"posts":[{"id":1,"type":"text"}],"total_posts":1}}
\*   "blog"    {"response":{"blog":{"name":"foo"}}}
\*   "locstr"  {"location":"https://b/z.png"}
\*   "locnum"  {"location":5}
Bodies == {"", "bad", "{}", "posts", "blog", "locstr", "locnum"}

ValidJson(body) == body \notin {"", "bad"}

HeaderLocations == {"", "https://x/y.png"}

\* What client.Get and client.GetWithParams can answer: a transport error,
\* or a response with a body and headers.
Replies ==
    {[err |-> ErrTransport, body |-> "", Location |-> ""]}
    \cup {[err |-> ErrNil, body |-> b, Location |-> l] : b \in Bodies, l \in HeaderLocations}

\* The Response value of a reply.
ResponseOf(reply) == [body |-> reply.body, Location |-> reply.Location]

QueryNames == {Foo, FooExampleCom}

ParamValues == {"", "type=text"}

\* json.Unmarshal(response.body, &posts) into struct{Response Posts}:
\* absent keys leave the zero value.
DecodePosts(body) ==
    IF ~ValidJson(body) THEN [err |-> ErrJson, Posts |-> <<>>, TotalPosts |-> 0]
    ELSE IF body = "posts" THEN
        [err |-> ErrNil, Posts |-> <<[Id |-> 1, Type |-> "text"]>>, TotalPosts |-> 1]
    ELSE [err |-> ErrNil, Posts |-> <<>>, TotalPosts |-> 0]

\* json.Unmarshal(response.body, &blog) into struct{Response struct{Blog Blog}}.
DecodeBlog(body) ==
    IF ~ValidJson(body) THEN [err |-> ErrJson, Name |-> <<>>]
    ELSE IF body = "blog" THEN [err |-> ErrNil, Name |-> Foo]
    ELSE [err |-> ErrNil, Name |-> <<>>]

\* response.PopulateFromBody(): the body parsed into the Result map, or the
\* parse error.
PopulateFromBody(body) ==
    IF ~ValidJson(body) THEN [err |-> ErrJson, Result |-> <<>>]
    ELSE IF body = "locstr" THEN
        [err |-> ErrNil,
         Result |-> [location |-> [type |-> "string", val |-> "https://b/z.png"]]]
    ELSE IF body = "locnum" THEN
        [err |-> ErrNil, Result |-> [location |-> [type |-> "number", val |-> "5"]]]
    ELSE [err |-> ErrNil, Result |-> <<>>]

----------------------------------------------------------------------------
(* The query helpers.  Each returns what the call hands back (result, err)
   together with the requests it issued on the capability (sent) and
   whether it parsed the body into a map (parsed); reply is the capability's
   answer to a request. *)

Request(client, method, path, params) ==
    [client |-> client, method |-> method, path |-> path, params |-> params]

\* queryPosts, had it not attached the capability and the response.
queryPostsDetached(client, path, name, params, reply) ==
    LET req == Request(client, "GetWithParams", blogPath(path, name), params)
        dec == DecodePosts(reply.body)
    IN  IF reply.err # ErrNil THEN
            [sent |-> <<req>>, result |-> NilResult, err |-> reply.err, parsed |-> FALSE]
        ELSE IF dec.err = ErrNil THEN
            [sent |-> <<req>>,
             result |-> [kind |-> "Posts", client |-> NoClient, response |-> ResponseOf(NoReply),
                         Posts |-> dec.Posts, TotalPosts |-> dec.TotalPosts],
             err |-> ErrNil, parsed |-> FALSE]
        ELSE [sent |-> <<req>>, result |-> NilResult, err |-> dec.err, parsed |-> FALSE]

queryPosts(client, path, name, params, reply) ==
    LET req == Request(client, "GetWithParams", blogPath(path, name), params)
        dec == DecodePosts(reply.body)
    IN  IF reply.err # ErrNil THEN
            [sent |-> <<req>>, result |-> NilResult, err |-> reply.err, parsed |-> FALSE]
        ELSE IF dec.err = ErrNil THEN
            [sent |-> <<req>>,
             result |-> [kind |-> "Posts", client |-> client, response |-> ResponseOf(reply),
                         Posts |-> dec.Posts, TotalPosts |-> dec.TotalPosts],
             err |-> ErrNil, parsed |-> FALSE]
        ELSE [sent |-> <<req>>, result |-> NilResult, err |-> dec.err, parsed |-> FALSE]

GetPostsResult(client, name, params, reply) ==
    queryPosts(client, PostsPath, name, params, reply)

GetBlogInfoResult(client, name, reply) ==
    LET req == Request(client, "Get", blogPath(InfoPath, name), "")
        dec == DecodeBlog(reply.body)
    IN  IF reply.err # ErrNil THEN
            [sent |-> <<req>>, result |-> NilResult, err |-> reply.err, parsed |-> FALSE]
        ELSE IF dec.err # ErrNil THEN
            [sent |-> <<req>>, result |-> NilResult, err |-> dec.err, parsed |-> FALSE]
        ELSE [sent |-> <<req>>,
              result |-> [kind |-> "Blog", client |-> client, Name |-> dec.Name],
              err |-> ErrNil, parsed |-> FALSE]

\* GetAvatar, had it asked again after a transport error.
GetAvatarRetrying(client, name, reply) ==
    LET req == Request(client, "Get", blogPath(AvatarPath, name), "")
    IN  IF reply.err # ErrNil THEN
            [sent |-> <<req, req>>, result |-> [kind |-> "string", value |-> ""],
             err |-> reply.err, parsed |-> FALSE]
        ELSE [sent |-> <<req>>, result |-> [kind |-> "string", value |-> reply.Location],
              err |-> ErrNil, parsed |-> FALSE]

\* GetAvatar, had it looked into the body before the header.
GetAvatarBodyFirst(client, name, reply) ==
    LET req == Request(client, "Get", blogPath(AvatarPath, name), "")
        pop == PopulateFromBody(reply.body)
    IN  IF reply.err # ErrNil THEN
            [sent |-> <<req>>, result |-> [kind |-> "string", value |-> ""],
             err |-> reply.err, parsed |-> FALSE]
        ELSE IF pop.err # ErrNil THEN
            [sent |-> <<req>>, result |-> [kind |-> "string", value |-> ""],
             err |-> pop.err, parsed |-> TRUE]
        ELSE IF "location" \in DOMAIN pop.Result /\ pop.Result.location.type = "string" THEN
            [sent |-> <<req>>,
             result |-> [kind |-> "string", value |-> pop.Result.location.val],
             err |-> ErrNil, parsed |-> TRUE]
        ELSE IF reply.Location # "" THEN
            [sent |-> <<req>>, result |-> [kind |-> "string", value |-> reply.Location],
             err |-> ErrNil, parsed |-> TRUE]
        ELSE [sent |-> <<req>>, result |-> [kind |-> "string", value |-> ""],
              err |-> ErrAvatar, parsed |-> TRUE]

GetAvatarResult(client, name, reply) ==
    LET req == Request(client, "Get", blogPath(AvatarPath, name), "")
        pop == PopulateFromBody(reply.body)
    IN  IF reply.err # ErrNil THEN
            [sent |-> <<req>>, result |-> [kind |-> "string", value |-> ""],
             err |-> reply.err, parsed |-> FALSE]
        ELSE IF reply.Location # "" THEN
            [sent |-> <<req>>, result |-> [kind |-> "string", value |-> reply.Location],
             err |-> ErrNil, parsed |-> FALSE]
        ELSE IF pop.err # ErrNil THEN
            [sent |-> <<req>>, result |-> [kind |-> "string", value |-> ""],
             err |-> pop.err, parsed |-> TRUE]
        ELSE IF "location" \in DOMAIN pop.Result /\ pop.Result.location.type = "string" THEN
            [sent |-> <<req>>,
             result |-> [kind |-> "string", value |-> pop.Result.location.val],
             err |-> ErrNil, parsed |-> TRUE]
        ELSE [sent |-> <<req>>, result |-> [kind |-> "string", value |-> ""],
              err |-> ErrAvatar, parsed |-> TRUE]

RECURSIVE CountFor(_, _)
\* The requests of the sequence sent that went to capability c.
CountFor(sent, c) ==
    IF Len(sent) = 0 THEN 0
    ELSE (IF sent[1].client = c THEN 1 ELSE 0) + CountFor(Tail(sent), c)

\* A helper call returns: r is what it computed.
Return(op, client, name, params, reply, r) ==
    /\ calls' = calls + 1
    /\ requests' = [c \in Clients |-> requests[c] + CountFor(r.sent, c)]
    /\ lastCall' = [op |-> op, client |-> client, name |-> name, params |-> params]
    /\ lastReply' = reply
    /\ lastSent' = r.sent
    /\ result' = r.result
    /\ qerr' = r.err
    /\ bodyParsed' = r.parsed
    /\ UNCHANGED <<mediaVars, pathVars, ref>>

GetPosts(client, name, params, reply) ==
    /\ calls < MaxCalls
    /\ Return("GetPosts", client, name, params, reply,
              GetPostsResult(client, name, params, reply))

GetBlogInfo(client, name, reply) ==
    /\ calls < MaxCalls
    /\ Return("GetBlogInfo", client, name, "", reply,
              GetBlogInfoResult(client, name, reply))

GetAvatar(client, name, reply) ==
    /\ calls < MaxCalls
    /\ Return("GetAvatar", client, name, "", reply,
              GetAvatarResult(client, name, reply))

NewBlogRef(client, name) ==
    /\ ref' = [client |-> client, Name |-> name]
    /\ UNCHANGED <<mediaVars, pathVars, requests, calls, lastCall, lastReply,
                   lastSent, result, qerr, bodyParsed>>

\* b.GetInfo() on the BlogRef ref.
BlogRefGetInfo(reply) ==
    /\ calls < MaxCalls
    /\ ref.client # NoClient
    /\ Return("BlogRef.GetInfo", ref.client, ref.Name, "", reply,
              GetBlogInfoResult(ref.client, ref.Name, reply))

\* b.GetPosts(params) on the BlogRef ref.
BlogRefGetPosts(params, reply) ==
    /\ calls < MaxCalls
    /\ ref.client # NoClient
    /\ Return("BlogRef.GetPosts", ref.client, ref.Name, params, reply,
              GetPostsResult(ref.client, ref.Name, params, reply))

InitQuery == MediaIdle /\ PathIdle /\ QueryIdle

NextQuery ==
    \/ \E c \in Clients, name \in QueryNames, ps \in ParamValues, reply \in Replies :
          GetPosts(c, name, ps, reply)
    \/ \E c \in Clients, name \in QueryNames, reply \in Replies : GetBlogInfo(c, name, reply)
    \/ \E c \in Clients, name \in QueryNames, reply \in Replies : GetAvatar(c, name, reply)
    \/ \E c \in Clients, name \in QueryNames : NewBlogRef(c, name)
    \/ \E reply \in Replies : BlogRefGetInfo(reply)
    \/ \E ps \in ParamValues, reply \in Replies : BlogRefGetPosts(ps, reply)

SpecQuery == InitQuery /\ [][NextQuery]_vars

----------------------------------------------------------------------------
(* The claims about the query helpers *)

PostsOps == {"GetPosts", "BlogRef.GetPosts"}

BlogOps == {"GetBlogInfo", "BlogRef.GetInfo"}

\* C7 as claimed: after a successful request GetAvatar returns a non-empty
\* Location header without parsing the body, parses the body only when the
\* header is absent and returns the string under its location key, and
\* fails with the avatar-location-not-found error whenever neither the
\* header nor the body yields a location.
C7_NotFoundWheneverNoLocation ==
    (lastCall.op = "GetAvatar" /\ lastReply.err = ErrNil) =>
        /\ lastReply.Location # "" =>
              (qerr = ErrNil /\ result.value = lastReply.Location /\ ~bodyParsed)
        /\ lastReply.Location = "" => bodyParsed
        /\ (lastReply.Location = "" /\ lastReply.body = "locstr") =>
              (qerr = ErrNil /\ result.value = "https://b/z.png")
        /\ (lastReply.Location = "" /\ lastReply.body # "locstr") => qerr = ErrAvatar

\* C7 as amended: as claimed, except that with the header absent a body
\* that cannot be parsed makes GetAvatar fail with the parse error; the
\* avatar-location-not-found error is returned when the body parses and
\* holds no string under the location key.
C7_AvatarLocation ==
    (lastCall.op = "GetAvatar" /\ lastReply.err = ErrNil) =>
        /\ lastReply.Location # "" =>
              (qerr = ErrNil /\ result.value = lastReply.Location /\ ~bodyParsed)
        /\ lastReply.Location = "" => bodyParsed
        /\ (lastReply.Location = "" /\ lastReply.body = "locstr") =>
              (qerr = ErrNil /\ result.value = "https://b/z.png")
        /\ (lastReply.Location = "" /\ lastReply.body \in {"", "bad"}) => qerr = ErrJson
        /\ (lastReply.Location = "" /\ lastReply.body \in {"{}", "posts", "blog", "locnum"}) =>
              qerr = ErrAvatar

\* GetAvatar got a response with no Location header and a body that is no
\* JSON, parsed the body and returned the parse error.
C7_Witness ==
    /\ lastCall.op = "GetAvatar"
    /\ lastReply.err = ErrNil
    /\ lastReply.Location = ""
    /\ lastReply.body = "bad"
    /\ bodyParsed
    /\ qerr = ErrJson

\* C8: every call of GetPosts, GetBlogInfo, GetAvatar, BlogRef.GetInfo or
\* BlogRef.GetPosts issues exactly one request, on the capability it was
\* given, whether it succeeds or fails; so the requests issued so far are as
\* many as the calls made.  A transport error is returned as it is, and so
\* is the error of decoding the body.
C8_OneRequestPerCall ==
    /\ requests["c1"] + requests["c2"] = calls
    /\ calls > 0 =>
          /\ Len(lastSent) = 1
          /\ lastSent[1].client = lastCall.client
          /\ lastSent[1].method =
                (IF lastCall.op \in PostsOps THEN "GetWithParams" ELSE "Get")
          /\ lastReply.err # ErrNil => qerr = lastReply.err
          /\ (lastReply.err = ErrNil /\ lastReply.body \in {"", "bad"}
                /\ lastCall.op \in PostsOps \cup BlogOps) => qerr = ErrJson

\* A call that failed in transport came after another call, and two requests
\* were issued in all.
C8_Witness ==
    /\ calls = 2
    /\ qerr = ErrTransport
    /\ lastCall.op = "GetAvatar"
    /\ requests["c1"] + requests["c2"] = 2

\* C9 as claimed: after a successful GetPosts or GetBlogInfo call (directly
\* or through a BlogRef) the returned entity holds the capability passed to
\* the call and retains the response that was decoded.
C9_EntityKeepsClientAndResponse ==
    (lastCall.op \in PostsOps \cup BlogOps /\ qerr = ErrNil) =>
        /\ result.client = lastCall.client
        /\ "response" \in DOMAIN result
        /\ result.response = ResponseOf(lastReply)

\* C9 as amended: the returned entity holds the capability passed to the
\* call; Posts also retains the response that was decoded, and Blog retains
\* no response (it has no field for one).
C9_EntityKeepsClient ==
    /\ (lastCall.op \in PostsOps /\ qerr = ErrNil) =>
          /\ result.kind = "Posts"
          /\ result.client = lastCall.client
          /\ result.response = ResponseOf(lastReply)
    /\ (lastCall.op \in BlogOps /\ qerr = ErrNil) =>
          /\ result.kind = "Blog"
          /\ result.client = lastCall.client
          /\ "response" \notin DOMAIN result

\* GetPosts on capability c2 decoded the one-post envelope; the Posts it
\* returned holds c2 and the response.
C9_Witness ==
    /\ lastCall.op = "GetPosts"
    /\ lastCall.client = "c2"
    /\ qerr = ErrNil
    /\ lastReply.body = "posts"
    /\ result.kind = "Posts"
    /\ result.TotalPosts = 1
    /\ result.client = "c2"
    /\ result.response.body = "posts"

====
